---- MODULE Spec2Model ----
(***************************************************************************)
(* The agent route (POST /api/agent): request validation, dispatch to the  *)
(* four Gmail / Notion handlers, the fan-out of gmail.listMessages, and    *)
(* the error envelope; and the dashboard page that submits to it.          *)
(*                                                                         *)
(* JSON values are records [t, n, frac, s]: t is the JSON type, n the      *)
(* integer part of a number (frac: the number is n + 1/2), s the           *)
(* characters of a string (one-character strings) or, for an array, the    *)
(* JSON types of its elements.                                             *)
(***************************************************************************)
EXTENDS Integers, Sequences, FiniteSets, TLC

\* ------------------------------------------------------------ bounds
\* Longest listing users.messages.list returns in the model.
MaxListing == 3
\* Longest result list dataSources.query returns in the model.
MaxQueryResults == 2
\* Field edits (handleChange) per behaviour of the page.
MaxEdits == 2

\* ------------------------------------------------------- JSON values
Undef == [t |-> "undefined", n |-> 0, frac |-> FALSE, s |-> <<>>]
Null == [t |-> "null", n |-> 0, frac |-> FALSE, s |-> <<>>]
Str(cs) == [t |-> "string", n |-> 0, frac |-> FALSE, s |-> cs]
Num(k) == [t |-> "number", n |-> k, frac |-> FALSE, s |-> <<>>]
NumHalf(k) == [t |-> "number", n |-> k, frac |-> TRUE, s |-> <<>>]
Bool(b) == [t |-> "boolean", n |-> IF b THEN 1 ELSE 0, frac |-> FALSE, s |-> <<>>]
Arr(ts) == [t |-> "array", n |-> 0, frac |-> FALSE, s |-> ts]

\* JavaScript truthiness of a JSON value, as `!x` and `a && b` read it.
Truthy(v) ==
    CASE v.t = "undefined" -> FALSE
      [] v.t = "null" -> FALSE
      [] v.t = "string" -> Len(v.s) > 0
      [] v.t = "number" -> v.n # 0 \/ v.frac
      [] v.t = "boolean" -> v.n = 1
      [] OTHER -> TRUE

\* ------------------------------------------------------------ actions
AgentActions ==
    {"gmail.listMessages", "gmail.sendMessage", "notion.listPages", "notion.createPage"}

AllFields ==
    {"maxResults", "labelIds", "includeSpamTrash", "to", "subject", "body",
     "pageSize", "filterProperty", "filterValue", "title", "content"}

NoFields == [f \in AllFields |-> Undef]

\* A zod issue: the path of the offending value and the issue code.
Issue(p, c) == [path |-> p, code |-> c]

IdxName == <<"0", "1", "2", "3">>

\* ------------------------------------------------ field-level schemas
\* z.number().int().positive().max(20).optional()
SizeIssues_MaxExclusive(v, f) ==
    IF v.t = "undefined" THEN {}
    ELSE IF v.t # "number" THEN {Issue(<<f>>, "invalid_type")}
    ELSE (IF v.frac THEN {Issue(<<f>>, "invalid_type")} ELSE {})
         \cup (IF v.n > 0 \/ (v.n = 0 /\ v.frac) THEN {} ELSE {Issue(<<f>>, "too_small")})
         \cup (IF v.n < 20 THEN {} ELSE {Issue(<<f>>, "too_big")})

SizeIssues(v, f) ==
    IF v.t = "undefined" THEN {}
    ELSE IF v.t # "number" THEN {Issue(<<f>>, "invalid_type")}
    ELSE (IF v.frac THEN {Issue(<<f>>, "invalid_type")} ELSE {})
         \cup (IF v.n > 0 \/ (v.n = 0 /\ v.frac) THEN {} ELSE {Issue(<<f>>, "too_small")})
         \cup (IF v.n < 20 \/ (v.n = 20 /\ ~v.frac) THEN {} ELSE {Issue(<<f>>, "too_big")})

\* z.array(z.string()).optional()
StringArrayIssues(v, f) ==
    IF v.t = "undefined" THEN {}
    ELSE IF v.t # "array" THEN {Issue(<<f>>, "invalid_type")}
    ELSE {Issue(<<f, IdxName[i]>>, "invalid_type") : i \in {j \in 1..Len(v.s) : v.s[j] # "string"}}

\* z.boolean().optional()
OptBooleanIssues(v, f) ==
    IF v.t \in {"undefined", "boolean"} THEN {} ELSE {Issue(<<f>>, "invalid_type")}

\* z.string().optional()
OptStringIssues(v, f) ==
    IF v.t \in {"undefined", "string"} THEN {} ELSE {Issue(<<f>>, "invalid_type")}

\* z.string().min(1)
NonEmptyStringIssues(v, f) ==
    IF v.t # "string" THEN {Issue(<<f>>, "invalid_type")}
    ELSE IF Len(v.s) >= 1 THEN {} ELSE {Issue(<<f>>, "too_small")}

\* The character classes of zod's e-mail pattern
\*   ^(?!\.)(?!.*\.\.)([A-Z0-9_'+\-\.]*)[A-Z0-9_+-]@([A-Z0-9][A-Z0-9\-]*\.)+[A-Z]{2,}$
\* over the characters the model's strings are written in.
Letters == {"a", "b"}
Alnum == Letters \cup {"1"}
LocalEnd == Alnum \cup {"_", "+", "-"}
LocalChars == LocalEnd \cup {"'", "."}
DomainChars == Alnum \cup {"-", "."}

DomainOk(d) ==
    /\ Len(d) >= 1
    /\ \A i \in 1..Len(d) : d[i] \in DomainChars
    /\ \E i \in 1..Len(d) : d[i] = "."
    /\ LET dots == {i \in 1..Len(d) : d[i] = "."}
           lastDot == CHOOSE i \in dots : \A j \in dots : j <= i
       IN /\ Len(d) - lastDot >= 2
          /\ \A i \in (lastDot + 1)..Len(d) : d[i] \in Letters
          /\ \A i \in 1..lastDot : (i = 1 \/ d[i - 1] = ".") => d[i] \in Alnum

IsEmail(cs) ==
    /\ Len(cs) >= 1
    /\ cs[1] # "."
    /\ \A i \in 1..(Len(cs) - 1) : ~(cs[i] = "." /\ cs[i + 1] = ".")
    /\ \E k \in 1..Len(cs) :
          /\ cs[k] = "@"
          /\ k >= 2
          /\ \A i \in 1..(k - 1) : cs[i] \in LocalChars
          /\ cs[k - 1] \in LocalEnd
          /\ DomainOk(SubSeq(cs, k + 1, Len(cs)))

\* z.string().email()
EmailIssues(v, f) ==
    IF v.t # "string" THEN {Issue(<<f>>, "invalid_type")}
    ELSE IF IsEmail(v.s) THEN {} ELSE {Issue(<<f>>, "invalid_string")}

\* An issue that makes zod abort the object (a wrong type) rather than mark it dirty.
Aborted(issues) == \E i \in issues : i.code = "invalid_type"

\* ------------------------------------------------------ requestSchema
AStr(name) == [t |-> "string", name |-> name]
AUndef == [t |-> "undefined", name |-> ""]
ANum == [t |-> "number", name |-> ""]

\* z.enum([...]) on `action`
ActionIssues(a) ==
    IF a.t # "string" THEN {Issue(<<"action">>, "invalid_type")}
    ELSE IF a.name \in AgentActions THEN {}
    ELSE {Issue(<<"action">>, "invalid_enum_value")}

\* z.record(z.string(), z.any()).optional() on `payload`; pk is the kind of
\* value the body carries there.
PayloadIssues(pk) ==
    IF pk \in {"absent", "object"} THEN {} ELSE {Issue(<<"payload">>, "invalid_type")}

RequestIssues(b) ==
    IF ~b.obj THEN {Issue(<<>>, "invalid_type")}
    ELSE ActionIssues(b.action) \cup PayloadIssues(b.pk)

\* parsed.payload: undefined, or the record the body carried.
ParsedPayload(b) == [present |-> b.pk = "object", fields |-> b.fields]

\* ------------------------------------------------- handlers' schemas
Only(fs, fields) == [f \in AllFields |-> IF f \in fs THEN fields[f] ELSE Undef]

ListMessagesFields == {"maxResults", "labelIds", "includeSpamTrash"}
SendMessageFields == {"to", "subject", "body"}
ListPagesFields == {"pageSize", "filterProperty", "filterValue"}
CreatePageFields == {"title", "content"}

\* handleListMessages: z.object({...}).optional()
ListMessagesIssues(p) ==
    IF ~p.present THEN {}
    ELSE SizeIssues(p.fields["maxResults"], "maxResults")
         \cup StringArrayIssues(p.fields["labelIds"], "labelIds")
         \cup OptBooleanIssues(p.fields["includeSpamTrash"], "includeSpamTrash")

\* handleSendMessage: z.object({to, subject, body})
SendMessageIssues_SubjectOptional(p) ==
    IF ~p.present THEN {Issue(<<>>, "invalid_type")}
    ELSE EmailIssues(p.fields["to"], "to")
         \cup OptStringIssues(p.fields["subject"], "subject")
         \cup NonEmptyStringIssues(p.fields["body"], "body")

SendMessageIssues(p) ==
    IF ~p.present THEN {Issue(<<>>, "invalid_type")}
    ELSE EmailIssues(p.fields["to"], "to")
         \cup NonEmptyStringIssues(p.fields["subject"], "subject")
         \cup NonEmptyStringIssues(p.fields["body"], "body")

\* handleListPages: the refinement
\*   !data.filterProperty || (data.filterProperty && data.filterValue)
ListPagesRefine_None(f) == TRUE

ListPagesRefine(f) ==
    \/ ~Truthy(f["filterProperty"])
    \/ (Truthy(f["filterProperty"]) /\ Truthy(f["filterValue"]))

\* handleListPages: z.object({...}).refine(...) applied to `payload ?? {}`.
\* The refinement runs on an object whose fields have the right types.
ListPagesIssues(p) ==
    LET f == IF p.present THEN p.fields ELSE NoFields
        base == SizeIssues(f["pageSize"], "pageSize")
                \cup OptStringIssues(f["filterProperty"], "filterProperty")
                \cup OptStringIssues(f["filterValue"], "filterValue")
    IN base \cup (IF ~Aborted(base) /\ ~ListPagesRefine(f)
                  THEN {Issue(<<"filterValue">>, "custom")} ELSE {})

\* handleCreatePage: z.object({title, content})
CreatePageIssues(p) ==
    IF ~p.present THEN {Issue(<<>>, "invalid_type")}
    ELSE NonEmptyStringIssues(p.fields["title"], "title")
         \cup NonEmptyStringIssues(p.fields["content"], "content")

\* ------------------------------------------------------- environment
GmailVars ==
    {"GOOGLE_CLIENT_ID", "GOOGLE_CLIENT_SECRET", "GOOGLE_REFRESH_TOKEN", "GOOGLE_REDIRECT_URI"}
NotionVars == {"NOTION_API_KEY", "NOTION_DATABASE_ID", "NOTION_DATA_SOURCE_ID"}
EnvVars == GmailVars \cup NotionVars

\* gmailEnvSchema / notionEnvSchema: every variable z.string().min(1)
GmailEnvIssues(e) == UNION {NonEmptyStringIssues(e[v], v) : v \in GmailVars}
NotionEnvIssues(e) == UNION {NonEmptyStringIssues(e[v], v) : v \in NotionVars}

\* --------------------------------------------------- thrown values
NoErr == [kind |-> "none", text |-> "", ref |-> 0, issues |-> {}]
ZodError(issues) == [kind |-> "zod", text |-> "", ref |-> 0, issues |-> issues]
ErrorOf(text, ref) == [kind |-> "error", text |-> text, ref |-> ref, issues |-> {}]

GmailConfigMessage ==
    "Missing required Gmail environment variables. Ensure GOOGLE_CLIENT_ID, GOOGLE_CLIENT_SECRET, GOOGLE_REFRESH_TOKEN, and GOOGLE_REDIRECT_URI are set."
NotionConfigMessage ==
    "Missing required Notion environment variables. Ensure NOTION_API_KEY and NOTION_DATABASE_ID are set."
UnexpectedMessage == "Unexpected error while handling request."

\* --------------------------------------------------------- responses
NoData == [shape |-> "none", items |-> <<>>]
NoResp == [status |-> 0, err |-> NoErr, data |-> NoData]
Ok(data) == [status |-> 200, err |-> NoErr, data |-> data]

\* The catch block of POST: a ZodError is a 400, anything else a 500; the
\* envelope carries the error's message (a ZodError's message is its issues).
CatchResponse(e) ==
    IF e.kind = "zod" THEN [status |-> 400, err |-> e, data |-> NoData]
    ELSE [status |-> 500,
          err |-> IF e.kind = "error" THEN e ELSE ErrorOf(UnexpectedMessage, 0),
          data |-> NoData]

\* ------------------------------------------------------------- state
VARIABLES
    env,          \* process.env: each variable undefined or a string
    pc,           \* where POST and the handler it called stand
    body,         \* the request body
    payload,      \* parsed.payload
    params,       \* the handler's parsed parameters
    validated,    \* the schemas that have accepted the input so far
    handlers,     \* the handlers POST has called
    calls,        \* the SDK calls issued, in order
    listing,      \* response.data.messages of users.messages.list
    tasks,        \* the promises of messages.map(...), by position
    order,        \* the positions of the detail fetches, in completion order
    resp,         \* the response POST returned
    responses,    \* how many responses POST returned
    failure,      \* what made the request fail: none, json, request, payload, env, external
    activeAction, \* page: the selected action
    isLoading,    \* page: a submitted request is unresolved
    result,       \* page: the displayed result
    formState,    \* page: the form's fields
    inflight,     \* page: the requests fetch has not resolved yet
    edits         \* page: the field edits made so far

serverVars ==
    <<env, pc, body, payload, params, validated, handlers, calls, listing, tasks, order,
      resp, responses, failure>>
pageVars == <<activeAction, isLoading, result, formState, inflight, edits>>
vars == <<serverVars, pageVars>>

\* ------------------------------------------------------------ inputs
SetVal == Str(<<"a">>)
AllSet == [v \in EnvVars |-> SetVal]
\* process.env with at most one variable undefined or empty.
EnvConfigs ==
    {AllSet} \cup {[AllSet EXCEPT ![v] = d] : v \in EnvVars, d \in {Undef, Str(<<>>)}}

GoodEmail == <<"a", "@", "b", ".", "a", "b">>
BadEmails == {<<>>, <<"a">>, <<"a", "@", "b">>, <<".", "a", "@", "b", ".", "a", "b">>}
Text == <<"a", "b">>

With(fields, f, v) == [fields EXCEPT ![f] = v]

SizeValues ==
    {Undef, Null, Str(<<"1">>), NumHalf(1), Num(-1), Num(0), Num(1), Num(2), Num(20), Num(21)}

ListMessagesPayloads ==
    {With(NoFields, "maxResults", v) : v \in SizeValues}
    \cup {With(NoFields, "labelIds", v) :
            v \in {Arr(<<"string">>), Arr(<<"string", "number">>), Str(Text)}}
    \cup {With(NoFields, "includeSpamTrash", v) : v \in {Bool(TRUE), Str(Text)}}
    \cup {With(With(NoFields, "maxResults", Num(21)), "labelIds", Arr(<<"number">>))}

SendMessageBase ==
    [NoFields EXCEPT !["to"] = Str(GoodEmail), !["subject"] = Str(Text), !["body"] = Str(Text)]

SendMessagePayloads ==
    {SendMessageBase, NoFields}
    \cup {With(SendMessageBase, "to", v) : v \in {Undef, Num(1)} \cup {Str(e) : e \in BadEmails}}
    \cup {With(SendMessageBase, f, v) : f \in {"subject", "body"}, v \in {Undef, Str(<<>>), Null}}
    \cup {With(With(SendMessageBase, "to", Undef), "subject", Undef)}

FilterValues == {Undef, Str(<<>>), Str(Text), Num(1)}

ListPagesPayloads ==
    {With(NoFields, "pageSize", v) : v \in SizeValues}
    \cup {With(With(NoFields, "filterProperty", fp), "filterValue", fv) :
            fp \in FilterValues, fv \in FilterValues}
    \cup {With(With(NoFields, "pageSize", Num(21)), "filterProperty", Str(Text))}

CreatePageBase == [NoFields EXCEPT !["title"] = Str(Text), !["content"] = Str(Text)]

CreatePagePayloads ==
    {CreatePageBase, NoFields}
    \cup {With(CreatePageBase, f, v) : f \in {"title", "content"}, v \in {Undef, Str(<<>>), Num(1)}}

PayloadsFor(a) ==
    CASE a = "gmail.listMessages" -> ListMessagesPayloads
      [] a = "gmail.sendMessage" -> SendMessagePayloads
      [] a = "notion.listPages" -> ListPagesPayloads
      [] a = "notion.createPage" -> CreatePagePayloads

JsonBody(a, pk, fields) == [json |-> TRUE, obj |-> TRUE, action |-> a, pk |-> pk, fields |-> fields]

\* The bodies a client may send: text that is no JSON, JSON that is no object,
\* and objects with any action and any kind of payload.
Bodies ==
    {[json |-> FALSE, obj |-> FALSE, action |-> AUndef, pk |-> "absent", fields |-> NoFields],
     [json |-> TRUE, obj |-> FALSE, action |-> AUndef, pk |-> "absent", fields |-> NoFields]}
    \cup {JsonBody(AStr(a), pk, NoFields) :
            a \in AgentActions, pk \in {"absent", "null", "scalar", "array"}}
    \cup UNION {{JsonBody(AStr(a), "object", f) : f \in PayloadsFor(a)} : a \in AgentActions}
    \cup {JsonBody(a, pk, NoFields) :
            a \in {AUndef, ANum, AStr("gmail.deleteMessage"), AStr("")},
            pk \in {"absent", "null", "scalar", "array"}}
    \cup {JsonBody(a, "object", f) :
            a \in {AUndef, ANum, AStr("gmail.deleteMessage"), AStr("")},
            f \in {NoFields, SendMessageBase, CreatePageBase}}

At(h, step) == [h |-> h, at |-> step]

NoPayload == [present |-> FALSE, fields |-> NoFields]

NoResult == [shown |-> FALSE, kind |-> "", of |-> ""]

ServerInit ==
    /\ pc = At("POST", "idle")
    /\ body = [json |-> FALSE, obj |-> FALSE, action |-> AUndef, pk |-> "absent", fields |-> NoFields]
    /\ payload = NoPayload
    /\ params = NoFields
    /\ validated = {}
    /\ handlers = {}
    /\ calls = <<>>
    /\ listing = <<>>
    /\ tasks = <<>>
    /\ order = <<>>
    /\ resp = NoResp
    /\ responses = 0
    /\ failure = "none"

\* DEFAULT_PAYLOADS, with the texts shortened; the default body ends in a newline.
DEFAULT_PAYLOADS(a) ==
    CASE a = "gmail.listMessages" ->
           [NoFields EXCEPT !["maxResults"] = Num(5), !["labelIds"] = Str(<<>>),
                            !["includeSpamTrash"] = Bool(FALSE)]
      [] a = "gmail.sendMessage" ->
           [NoFields EXCEPT !["to"] = Str(<<>>), !["subject"] = Str(<<"a", "b">>),
                            !["body"] = Str(<<"a", "b", " ">>)]
      [] a = "notion.listPages" ->
           [NoFields EXCEPT !["pageSize"] = Num(5), !["filterProperty"] = Str(<<>>),
                            !["filterValue"] = Str(<<>>)]
      [] a = "notion.createPage" ->
           [NoFields EXCEPT !["title"] = Str(<<"a", "b">>), !["content"] = Str(<<"a", "b">>)]

\* The state of the page after its first render.
PageInit ==
    /\ activeAction = "gmail.listMessages"
    /\ isLoading = FALSE
    /\ result = NoResult
    /\ formState = DEFAULT_PAYLOADS("gmail.listMessages")
    /\ inflight = <<>>
    /\ edits = 0

Init ==
    /\ env \in EnvConfigs
    /\ ServerInit
    /\ PageInit

\* ------------------------------------------------- external services
DefaultMaxResults == 10
DefaultPageSize == 10

NoFilter == [has |-> FALSE, property |-> <<>>, contains |-> <<>>]
Call(api, size, id, filter, args) ==
    [api |-> api, size |-> size, id |-> id, filter |-> filter, args |-> args]

\* An entry of response.data.messages: its id may be undefined or empty.
IdName == <<"m1", "m2", "m3", "m4">>
Entry(i, kind) ==
    [has |-> kind # "none", id |-> IF kind = "id" THEN IdName[i] ELSE "", threadId |-> i]

\* users.messages.list returns at most maxResults entries.
Min(a, b) == IF a <= b THEN a ELSE b
Listings(size) ==
    UNION {{[i \in 1..k |-> Entry(i, kinds[i])] : kinds \in [1..k -> {"id", "none", "empty"}]} :
             k \in 0..Min(MaxListing, size)}

\* What users.messages.get returns for an id: the snippet and the headers.
Mailbox(id) ==
    CASE id = "m1" ->
           [snippet |-> "s1",
            headers |-> <<[name |-> "From", value |-> "x"], [name |-> "", value |-> "y"],
                          [name |-> "From", value |-> "z"]>>]
      [] id = "m2" -> [snippet |-> "s2", headers |-> <<>>]
      [] OTHER -> [snippet |-> "s3", headers |-> <<[name |-> "Subject", value |-> ""]>>]

\* The items dataSources.query may return.
QueryItems == {"page", "partial_page", "data_source"}
QueryResults == UNION {[1..k -> QueryItems] : k \in 0..MaxQueryResults}

\* --------------------------------------------------------------- POST
Respond(r, cause) ==
    /\ resp' = r
    /\ responses' = responses + 1
    /\ pc' = At("POST", "done")
    /\ failure' = cause

Goto(h, step) ==
    /\ pc' = At(h, step)
    /\ UNCHANGED <<resp, responses, failure>>

\* A request arrives.
Receive(b) ==
    /\ pc = At("POST", "idle")
    /\ body' = b
    /\ Goto("POST", "json")
    /\ UNCHANGED <<env, payload, params, validated, handlers, calls, listing, tasks, order>>
    /\ UNCHANGED pageVars

\* await request.json()
ReadJson ==
    /\ pc = At("POST", "json")
    /\ IF body.json THEN Goto("POST", "schema")
       ELSE Respond(CatchResponse(ErrorOf("Unexpected token in JSON", 0)), "json")
    /\ UNCHANGED <<env, body, payload, params, validated, handlers, calls, listing, tasks, order>>
    /\ UNCHANGED pageVars

\* requestSchema.parse(body)
ParseRequest ==
    /\ pc = At("POST", "schema")
    /\ LET issues == RequestIssues(body) IN
       IF issues # {}
       THEN /\ Respond(CatchResponse(ZodError(issues)), "request")
            /\ UNCHANGED <<payload, validated>>
       ELSE /\ payload' = ParsedPayload(body)
            /\ validated' = validated \cup {"request"}
            /\ Goto("POST", "switch")
    /\ UNCHANGED <<env, body, params, handlers, calls, listing, tasks, order>>
    /\ UNCHANGED pageVars

\* switch (parsed.action)
HandlerFor_Swapped(a) ==
    CASE a = "gmail.listMessages" -> "handleListMessages"
      [] a = "gmail.sendMessage" -> "handleListMessages"
      [] a = "notion.listPages" -> "handleListPages"
      [] a = "notion.createPage" -> "handleCreatePage"
      [] OTHER -> "default"

HandlerFor(a) ==
    CASE a = "gmail.listMessages" -> "handleListMessages"
      [] a = "gmail.sendMessage" -> "handleSendMessage"
      [] a = "notion.listPages" -> "handleListPages"
      [] a = "notion.createPage" -> "handleCreatePage"
      [] OTHER -> "default"

Dispatch ==
    /\ pc = At("POST", "switch")
    /\ LET h == HandlerFor(body.action.name) IN
       IF h = "default"
       THEN /\ Respond([status |-> 400, err |-> ErrorOf("Unsupported action", 0),
                        data |-> NoData], "request")
            /\ UNCHANGED handlers
       ELSE /\ handlers' = handlers \cup {h}
            /\ Goto(h, "parse")
    /\ UNCHANGED <<env, body, payload, params, validated, calls, listing, tasks, order>>
    /\ UNCHANGED pageVars

\* schema.parse(payload) of a handler: the ZodError, or the parsed parameters.
ParsePayload(h, issues, parsed) ==
    /\ IF issues # {}
       THEN /\ Respond(CatchResponse(ZodError(issues)), "payload")
            /\ UNCHANGED <<params, validated>>
       ELSE /\ params' = parsed
            /\ validated' = validated \cup {"payload"}
            /\ Goto(h, "client")
    /\ UNCHANGED <<env, body, payload, handlers, calls, listing, tasks, order>>
    /\ UNCHANGED pageVars

\* getGmailClient(): what it throws, if anything.
GetGmailClient(e) ==
    IF GmailEnvIssues(e) # {} THEN ErrorOf(GmailConfigMessage, 0) ELSE NoErr

\* getNotionClient(): what it throws, if anything.
GetNotionClient(e) ==
    IF NotionEnvIssues(e) # {} THEN ErrorOf(NotionConfigMessage, 0) ELSE NoErr

\* notionEnvSchema.parse(process.env), then getNotionClient().
NotionSetup(e) ==
    IF NotionEnvIssues(e) # {} THEN ZodError(NotionEnvIssues(e)) ELSE GetNotionClient(e)

\* The configuration step of a handler: `thrown` is what it throws, if anything.
Configure(h, thrown) ==
    /\ IF thrown.kind # "none" THEN Respond(CatchResponse(thrown), "env") ELSE Goto(h, "call")
    /\ UNCHANGED <<env, body, payload, params, validated, handlers, calls, listing, tasks, order>>
    /\ UNCHANGED pageVars

\* A handler issues its SDK call and awaits it.
Issue1(h, call) ==
    /\ calls' = Append(calls, call)
    /\ Goto(h, "await")
    /\ UNCHANGED <<env, body, payload, params, validated, handlers, listing, tasks, order>>
    /\ UNCHANGED pageVars

\* The awaited SDK call rejects: the error reaches POST's catch block.
CallFails(h, text) ==
    /\ Respond(CatchResponse(ErrorOf(text, 0)), "external")
    /\ UNCHANGED <<env, body, payload, params, validated, handlers, calls, listing, tasks, order>>
    /\ UNCHANGED pageVars

\* The awaited SDK call resolves and the handler returns `data`.
CallReturns(h, data) ==
    /\ Respond(Ok(data), "none")
    /\ UNCHANGED <<env, body, payload, params, validated, handlers, calls, listing, tasks, order>>
    /\ UNCHANGED pageVars

\* ------------------------------------------------- handleListMessages
LM == "handleListMessages"

\* `x ?? d` on a size parameter
OrDefault(v, d) == IF v.t \in {"undefined", "null"} THEN d ELSE v.n

LM_Parse ==
    /\ pc = At(LM, "parse")
    /\ ParsePayload(LM, ListMessagesIssues(payload),
                 IF payload.present THEN Only(ListMessagesFields, payload.fields) ELSE NoFields)

LM_Client ==
    /\ pc = At(LM, "client")
    /\ Configure(LM, GetGmailClient(env))

LM_List ==
    /\ pc = At(LM, "call")
    /\ Issue1(LM, Call("gmail.users.messages.list", OrDefault(params["maxResults"], DefaultMaxResults),
                    "", NoFilter, params))

LM_ListFails ==
    /\ pc = At(LM, "await")
    /\ CallFails(LM, "gmail.users.messages.list failed")

\* `!message.id` is false
HasId(m) == m.has /\ m.id # ""

NullMessage == [has |-> FALSE, id |-> "", threadId |-> 0, snippet |-> "", headers |-> {}]

\* headers.reduce(...): the headers with a name and a value, the last value of a name winning.
ReduceHeaders(hs) ==
    LET kept == {i \in 1..Len(hs) : hs[i].name # "" /\ hs[i].value # ""}
        last == {i \in kept : \A j \in kept : hs[j].name = hs[i].name => j <= i}
    IN {[name |-> hs[i].name, value |-> hs[i].value] : i \in last}

\* What the callback of messages.map returns for an entry once its fetch resolved.
Detailed(m) ==
    [has |-> TRUE, id |-> m.id, threadId |-> m.threadId, snippet |-> Mailbox(m.id).snippet,
     headers |-> ReduceHeaders(Mailbox(m.id).headers)]

Promise(st, val) == [st |-> st, val |-> val]

\* The array Promise.all resolves with: each promise's value at its position.
JoinResults_ByCompletion(ts, ord) ==
    [k \in 1..Len(ord) |-> ts[ord[k]].val]

JoinResults(ts, ord) ==
    [i \in 1..Len(ts) |-> ts[i].val]

IsMessage(v) == v.has

\* detailedMessages.filter(Boolean)
MessagesData(ts, ord) ==
    [shape |-> "messages", items |-> SelectSeq(JoinResults(ts, ord), IsMessage)]

GetFailed == "gmail.users.messages.get failed"

\* await Promise.all(...) after promise i settled: the response the request ends
\* with, or NoResp while Promise.all is pending.  Promise.all rejects with the
\* first rejection and resolves once every promise is fulfilled.
AfterSettle_AllSettled(ts, ord, i) ==
    IF \A j \in 1..Len(ts) : ts[j].st # "pending"
    THEN Ok([shape |-> "messages",
             items |-> SelectSeq([j \in 1..Len(ts) |->
                                    IF ts[j].st = "fulfilled" THEN ts[j].val ELSE NullMessage],
                                 IsMessage)])
    ELSE NoResp

AfterSettle(ts, ord, i) ==
    IF ts[i].st = "rejected" THEN CatchResponse(ErrorOf(GetFailed, i))
    ELSE IF \A j \in 1..Len(ts) : ts[j].st = "fulfilled" THEN Ok(MessagesData(ts, ord))
    ELSE NoResp

\* The listing resolves; messages.map starts a fetch for every entry with an id
\* and returns null for the others; with nothing to fetch Promise.all resolves.
LM_ListReturns(l) ==
    /\ pc = At(LM, "await")
    /\ l \in Listings(calls[Len(calls)].size)
    /\ listing' = l
    /\ tasks' = [i \in 1..Len(l) |->
                   IF HasId(l[i]) THEN Promise("pending", NullMessage)
                   ELSE Promise("fulfilled", NullMessage)]
    /\ calls' = calls \o [k \in 1..Len(SelectSeq(l, HasId)) |->
                            Call("gmail.users.messages.get", 0, SelectSeq(l, HasId)[k].id,
                                 NoFilter, NoFields)]
    /\ IF \A i \in 1..Len(l) : ~HasId(l[i])
       THEN Respond(Ok(MessagesData(tasks', order)), "none")
       ELSE Goto(LM, "join")
    /\ UNCHANGED <<env, body, payload, params, validated, handlers, order>>
    /\ UNCHANGED pageVars

\* What a settled fetch means for the request: nothing once it has been answered.
Settled(i) ==
    LET r == AfterSettle(tasks', order', i) IN
    IF pc = At(LM, "join") /\ r # NoResp
    THEN Respond(r, IF r.status = 200 THEN "none" ELSE "external")
    ELSE UNCHANGED <<pc, resp, responses, failure>>

\* users.messages.get for entry i resolves.
LM_GetResolves(i) ==
    /\ i \in 1..Len(tasks)
    /\ tasks[i].st = "pending"
    /\ tasks' = [tasks EXCEPT ![i] = Promise("fulfilled", Detailed(listing[i]))]
    /\ order' = Append(order, i)
    /\ Settled(i)
    /\ UNCHANGED <<env, body, payload, params, validated, handlers, calls, listing>>
    /\ UNCHANGED pageVars

\* users.messages.get for entry i rejects.
LM_GetRejects(i) ==
    /\ i \in 1..Len(tasks)
    /\ tasks[i].st = "pending"
    /\ tasks' = [tasks EXCEPT ![i] = Promise("rejected", NullMessage)]
    /\ order' = Append(order, i)
    /\ Settled(i)
    /\ UNCHANGED <<env, body, payload, params, validated, handlers, calls, listing>>
    /\ UNCHANGED pageVars

\* -------------------------------------------------- handleSendMessage
SM == "handleSendMessage"

\* handleSendMessage going on without parsing its payload.
SM_Parse_Unchecked ==
    /\ pc = At(SM, "parse")
    /\ params' = Only(SendMessageFields, payload.fields)
    /\ Goto(SM, "client")
    /\ UNCHANGED <<env, body, payload, validated, handlers, calls, listing, tasks, order>>
    /\ UNCHANGED pageVars

SM_Parse ==
    /\ pc = At(SM, "parse")
    /\ ParsePayload(SM, SendMessageIssues(payload), Only(SendMessageFields, payload.fields))

SM_Client ==
    /\ pc = At(SM, "client")
    /\ Configure(SM, GetGmailClient(env))

\* The raw message is the To, Subject and Content-Type lines and the body; the
\* call is recorded with the three parameters it is built from.
SM_Send ==
    /\ pc = At(SM, "call")
    /\ Issue1(SM, Call("gmail.users.messages.send", 0, "", NoFilter, params))

SM_SendFails ==
    /\ pc = At(SM, "await")
    /\ CallFails(SM, "gmail.users.messages.send failed")

SM_SendReturns ==
    /\ pc = At(SM, "await")
    /\ CallReturns(SM, [shape |-> "sent", items |-> <<>>])

\* ---------------------------------------------------- handleListPages
LP == "handleListPages"

LP_Parse ==
    /\ pc = At(LP, "parse")
    /\ ParsePayload(LP, ListPagesIssues(payload),
                 IF payload.present THEN Only(ListPagesFields, payload.fields) ELSE NoFields)

LP_Client ==
    /\ pc = At(LP, "client")
    /\ Configure(LP, NotionSetup(env))

\* params.filterProperty && params.filterValue ? {...} : undefined
FilterOf(ps) ==
    IF Truthy(ps["filterProperty"]) /\ Truthy(ps["filterValue"])
    THEN [has |-> TRUE, property |-> ps["filterProperty"].s, contains |-> ps["filterValue"].s]
    ELSE NoFilter

LP_Query ==
    /\ pc = At(LP, "call")
    /\ Issue1(LP, Call("notion.dataSources.query", OrDefault(params["pageSize"], DefaultPageSize),
                    "NOTION_DATA_SOURCE_ID", FilterOf(params), params))

LP_QueryFails ==
    /\ pc = At(LP, "await")
    /\ CallFails(LP, "notion.dataSources.query failed")

IsPage(item) == item = "page"

\* .filter(isFullPageOrDataSource).filter(item => item.object === "page")
LP_QueryReturns(results) ==
    /\ pc = At(LP, "await")
    /\ CallReturns(LP, [shape |-> "pages", items |-> SelectSeq(results, IsPage)])

\* --------------------------------------------------- handleCreatePage
CP == "handleCreatePage"

CP_Parse ==
    /\ pc = At(CP, "parse")
    /\ ParsePayload(CP, CreatePageIssues(payload), Only(CreatePageFields, payload.fields))

CP_Client ==
    /\ pc = At(CP, "client")
    /\ Configure(CP, NotionSetup(env))

CP_Create ==
    /\ pc = At(CP, "call")
    /\ Issue1(CP, Call("notion.pages.create", 0, "NOTION_DATABASE_ID", NoFilter, params))

CP_CreateFails ==
    /\ pc = At(CP, "await")
    /\ CallFails(CP, "notion.pages.create failed")

\* "url" in response ? response.url : null
CP_CreateReturns(full) ==
    /\ pc = At(CP, "await")
    /\ CallReturns(CP, [shape |-> "created",
                     items |-> <<[pageId |-> "p1", url |-> IF full THEN "https://notion/p1" ELSE "null"]>>])

Next ==
    \/ \E b \in Bodies : Receive(b)
    \/ ReadJson
    \/ ParseRequest
    \/ Dispatch
    \/ LM_Parse
    \/ LM_Client
    \/ LM_List
    \/ LM_ListFails
    \/ \E l \in Listings(20) : LM_ListReturns(l)
    \/ \E i \in 1..MaxListing : LM_GetResolves(i)
    \/ \E i \in 1..MaxListing : LM_GetRejects(i)
    \/ SM_Parse
    \/ SM_Client
    \/ SM_Send
    \/ SM_SendFails
    \/ SM_SendReturns
    \/ LP_Parse
    \/ LP_Client
    \/ LP_Query
    \/ LP_QueryFails
    \/ \E r \in QueryResults : LP_QueryReturns(r)
    \/ CP_Parse
    \/ CP_Client
    \/ CP_Create
    \/ CP_CreateFails
    \/ \E full \in BOOLEAN : CP_CreateReturns(full)

Spec == Init /\ [][Next]_vars

\* ----------------------------------------------------------- the page
\* Object.keys(formState): the fields of the selected action's form.
FormKeys(fs) == {f \in AllFields : fs[f].t # "undefined"}

\* value.toString().trim(), over strings whose only white space is " ".
Trim(cs) ==
    LET solid == {i \in 1..Len(cs) : cs[i] # " "} IN
    IF solid = {} THEN <<>>
    ELSE SubSeq(cs, CHOOSE i \in solid : \A j \in solid : i <= j,
                    CHOOSE i \in solid : \A j \in solid : j <= i)

Digits == {"0", "1", "2", "3", "4", "5", "6", "7", "8", "9"}
DigitVal(c) == CHOOSE d \in 0..9 : <<"0", "1", "2", "3", "4", "5", "6", "7", "8", "9">>[d + 1] = c

RECURSIVE NatOf(_)
NatOf(cs) == IF cs = <<>> THEN 0 ELSE 10 * NatOf(SubSeq(cs, 1, Len(cs) - 1)) + DigitVal(cs[Len(cs)])

\* !Number.isNaN(Number(trimmed)) && trimmed === Number(trimmed).toString(), over
\* strings of digits and other characters: the decimal numerals with no leading zero.
IsCanonicalNumber(cs) ==
    /\ Len(cs) >= 1
    /\ \A i \in 1..Len(cs) : cs[i] \in Digits
    /\ (Len(cs) > 1 => cs[1] # "0")

\* trimmed.split(",").map(trim).filter(Boolean): how many labels are left.
LabelCount(cs) ==
    LET commas == {0, Len(cs) + 1} \cup {i \in 1..Len(cs) : cs[i] = ","}
        starts == {i \in commas : i <= Len(cs)}
        nextComma(i) == CHOOSE j \in commas : j > i /\ \A k \in commas : k > i => j <= k
    IN Cardinality({i \in starts : Trim(SubSeq(cs, i + 1, nextComma(i) - 1)) # <<>>})

\* One step of the reduce that builds the payload: the entry of key `key`, or
\* Undef when the key is left out.
PayloadEntry(key, value) ==
    IF value.t \in {"boolean", "number"} THEN value
    ELSE LET trimmed == Trim(value.s) IN
         IF Len(trimmed) = 0 THEN Undef
         ELSE IF trimmed = <<"t", "r", "u", "e">> THEN Bool(TRUE)
         ELSE IF trimmed = <<"f", "a", "l", "s", "e">> THEN Bool(FALSE)
         ELSE IF key = "labelIds"
              THEN (IF LabelCount(trimmed) > 0
                    THEN Arr([k \in 1..LabelCount(trimmed) |-> "string"]) ELSE Undef)
         ELSE IF IsCanonicalNumber(trimmed) THEN Num(NatOf(trimmed))
         ELSE Str(trimmed)

BuildPayload(fs) == [f \in AllFields |-> IF f \in FormKeys(fs) THEN PayloadEntry(f, fs[f]) ELSE Undef]

\* What a user may type into a field.
EditValues ==
    {<<>>, <<" ">>, <<"7">>, <<"0", "7">>, <<"t", "r", "u", "e">>, <<" ", "a", ",", ",", "b">>}

\* A click on an action button.
HandleActionChange(a) ==
    /\ result' = NoResult
    /\ activeAction' = a
    /\ formState' = DEFAULT_PAYLOADS(a)
    /\ UNCHANGED <<isLoading, inflight, edits>>
    /\ UNCHANGED serverVars

\* An edit of one of the form's inputs.
HandleChange(key, value) ==
    /\ edits < MaxEdits
    /\ key \in FormKeys(formState)
    /\ formState' = [formState EXCEPT ![key] = Str(value)]
    /\ edits' = edits + 1
    /\ UNCHANGED <<activeAction, isLoading, result, inflight>>
    /\ UNCHANGED serverVars

\* The form is submitted; the submit button is disabled while isLoading.  The
\* handler runs to its first await: the fetch of /api/agent.
HandleSubmit ==
    /\ ~isLoading
    /\ isLoading' = TRUE
    /\ result' = NoResult
    /\ inflight' = Append(inflight, [action |-> activeAction, payload |-> BuildPayload(formState),
                                     at |-> "fetch", ok |-> FALSE])
    /\ UNCHANGED <<activeAction, formState, edits>>
    /\ UNCHANGED serverVars

Without(q, i) == SubSeq(q, 1, i - 1) \o SubSeq(q, i + 1, Len(q))

\* The rest of handleSubmit once its request is settled: setResult, and in the
\* finally block setIsLoading(false).
Finish(i, kind) ==
    /\ result' = [shown |-> TRUE, kind |-> kind, of |-> inflight[i].action]
    /\ isLoading' = FALSE
    /\ inflight' = Without(inflight, i)
    /\ UNCHANGED <<activeAction, formState, edits>>
    /\ UNCHANGED serverVars

\* fetch resolves with a response; handleSubmit awaits response.json().
FetchResolves(i, ok) ==
    /\ i \in 1..Len(inflight)
    /\ inflight[i].at = "fetch"
    /\ inflight' = [inflight EXCEPT ![i].at = "json", ![i].ok = ok]
    /\ UNCHANGED <<activeAction, isLoading, result, formState, edits>>
    /\ UNCHANGED serverVars

\* fetch rejects: the catch block.
FetchRejects(i) ==
    /\ i \in 1..Len(inflight)
    /\ inflight[i].at = "fetch"
    /\ Finish(i, "error")

\* response.json() resolves: the data of a 2xx response, the error of another.
JsonResolves(i) ==
    /\ i \in 1..Len(inflight)
    /\ inflight[i].at = "json"
    /\ Finish(i, IF inflight[i].ok THEN "data" ELSE "error")

\* response.json() rejects: the catch block.
JsonRejects(i) ==
    /\ i \in 1..Len(inflight)
    /\ inflight[i].at = "json"
    /\ Finish(i, "error")

NextPage ==
    \/ \E a \in AgentActions : HandleActionChange(a)
    \/ \E key \in AllFields, value \in EditValues : HandleChange(key, value)
    \/ HandleSubmit
    \/ \E i \in DOMAIN inflight, ok \in BOOLEAN : FetchResolves(i, ok)
    \/ \E i \in DOMAIN inflight : FetchRejects(i)
    \/ \E i \in DOMAIN inflight : JsonResolves(i)
    \/ \E i \in DOMAIN inflight : JsonRejects(i)

InitPage ==
    /\ env = AllSet
    /\ ServerInit
    /\ PageInit

SpecPage == InitPage /\ [][NextPage]_vars

\* ============================================================ claims
Done == pc = At("POST", "done")
ActionIs(a) == body.json /\ body.obj /\ body.action = AStr(a)
Recognized == body.action.t = "string" /\ body.action.name \in AgentActions
\* The request-level schema has nothing to object to.
RequestWellFormed == body.json /\ body.obj /\ Recognized /\ body.pk \in {"absent", "object"}
\* The handler has got past schema.parse(payload).
PastParse == handlers # {} /\ pc.at # "parse"
CallsOf(api) == SelectSeq(calls, LAMBDA c : c.api = api)
\* An entry of the listing with an identifier to fetch by.
HasIdentifier(m) == m.has /\ m.id # ""
NonEmptyString(v) == v.t = "string" /\ v.s # <<>>
AbsentOrEmpty(v) == v.t = "undefined" \/ (v.t = "string" /\ v.s = <<>>)

\* C1: every request gets exactly one response; its status is 200 exactly when
\* nothing failed, 400 exactly when the request body or the action's payload
\* failed validation, and 500 for every other failure, with an error message.
C1_StatusTaxonomy ==
    /\ responses <= 1
    /\ Done <=> responses = 1
    /\ Done =>
         /\ resp.status \in {200, 400, 500}
         /\ resp.status = 200 <=> failure = "none"
         /\ resp.status = 400 <=> failure \in {"request", "payload"}
         /\ resp.status = 500 <=> failure \in {"json", "env", "external"}
         /\ resp.status = 200 => resp.err = NoErr /\ resp.data # NoData
         /\ resp.status # 200 => resp.err # NoErr /\ resp.data = NoData

ServiceVars(a) == IF a \in {"gmail.listMessages", "gmail.sendMessage"} THEN GmailVars ELSE NotionVars
EnvMissing(a) == \E v \in ServiceVars(a) : env[v].t = "undefined" \/ env[v].s = <<>>

\* C2: a valid request whose service lacks an environment variable (absent or
\* empty) ends in a 500 with the configuration error message, and no SDK call
\* is made.
C2_MissingConfigIs500 ==
    \A a \in AgentActions :
        (ActionIs(a) /\ "payload" \in validated /\ EnvMissing(a)) =>
            /\ calls = <<>>
            /\ Done => /\ resp.status = 500
                       /\ resp.err.kind = "error"
                       /\ resp.err.text \in {GmailConfigMessage, NotionConfigMessage}

\* C3: no SDK call is made before both the request schema and the action's
\* payload schema have accepted the input; gmail.sendMessage with an invalid
\* `to` address ends in a 400 with no SDK call made.
C3_NoCallBeforeValidation ==
    /\ calls # <<>> => {"request", "payload"} \subseteq validated
    /\ (ActionIs("gmail.sendMessage") /\ body.pk = "object"
        /\ body.fields["to"] \in {Str(e) : e \in BadEmails}) =>
            /\ calls = <<>>
            /\ Done => resp.status = 400

C3_Witness ==
    /\ Done
    /\ ActionIs("gmail.sendMessage")
    /\ body.fields["to"] = Str(<<"a", "@", "b">>)
    /\ resp.status = 400
    /\ calls = <<>>

RequestedMaxResults ==
    IF body.pk = "object" /\ body.fields["maxResults"].t = "number"
    THEN body.fields["maxResults"].n ELSE 10

\* C4: whatever the order the detail fetches complete in, the messages returned
\* are the listing's entries that have an identifier, in the listing's order,
\* each with its entry's id; the other entries are left out and not fetched; so
\* the result is no longer than the listing nor than maxResults (10 by default).
C4_ListingOrder ==
    LET wanted == SelectSeq(listing, HasIdentifier)
        gets == CallsOf("gmail.users.messages.get")
    IN /\ Len(gets) = Len(wanted)
       /\ \A k \in 1..Len(gets) : gets[k].id = wanted[k].id
       /\ (Done /\ ActionIs("gmail.listMessages") /\ resp.status = 200) =>
            /\ resp.data.shape = "messages"
            /\ Len(resp.data.items) = Len(wanted)
            /\ \A k \in 1..Len(wanted) :
                  /\ resp.data.items[k].id = wanted[k].id
                  /\ resp.data.items[k].threadId = wanted[k].threadId
            /\ Len(resp.data.items) <= Len(listing)
            /\ Len(resp.data.items) <= RequestedMaxResults

C4_Witness ==
    /\ Done
    /\ resp.status = 200
    /\ Len(resp.data.items) >= 2
    /\ \E i \in 1..Len(listing) : ~listing[i].has
    /\ Len(order) >= 2
    /\ order[1] > order[2]

FilterProperty == body.fields["filterProperty"]
FilterValue == body.fields["filterValue"]
Queries == CallsOf("notion.dataSources.query")

\* C5 as stated: with filterProperty present (any string, the empty one too) and
\* filterValue absent the request is a 400 and no query is issued; with both set
\* the payload is accepted and the query carries the contains-filter; a query
\* goes out without a filter only when filterProperty is absent.
C5_PresenceDecides ==
    (ActionIs("notion.listPages") /\ body.pk = "object") =>
        /\ (FilterProperty.t = "string" /\ FilterValue.t = "undefined") =>
              /\ calls = <<>>
              /\ Done => resp.status = 400
        /\ (FilterProperty.t = "string" /\ FilterValue.t = "string") =>
              /\ PastParse => "payload" \in validated
              /\ \A k \in 1..Len(Queries) :
                    Queries[k].filter =
                        [has |-> TRUE, property |-> FilterProperty.s, contains |-> FilterValue.s]
        /\ \A k \in 1..Len(Queries) : ~Queries[k].filter.has => FilterProperty.t = "undefined"

\* C5 amended: with a non-empty filterProperty and filterValue absent or empty the
\* request is a 400 and no query is issued; with both non-empty the payload is
\* accepted and the query carries the contains-filter; a query goes out without
\* a filter only when filterProperty is absent or empty.
C5_NonEmptyDecides ==
    (ActionIs("notion.listPages") /\ body.pk = "object") =>
        /\ (NonEmptyString(FilterProperty) /\ AbsentOrEmpty(FilterValue)) =>
              /\ calls = <<>>
              /\ Done => resp.status = 400
        /\ (NonEmptyString(FilterProperty) /\ NonEmptyString(FilterValue)) =>
              /\ PastParse => "payload" \in validated
              /\ \A k \in 1..Len(Queries) :
                    Queries[k].filter =
                        [has |-> TRUE, property |-> FilterProperty.s, contains |-> FilterValue.s]
        /\ \A k \in 1..Len(Queries) : ~Queries[k].filter.has => AbsentOrEmpty(FilterProperty)

C5_Witness ==
    /\ ActionIs("notion.listPages")
    /\ NonEmptyString(FilterProperty)
    /\ Len(Queries) = 1
    /\ Queries[1].filter = [has |-> TRUE, property |-> Text, contains |-> Text]

RequiredFields(a) == IF a = "gmail.sendMessage" THEN SendMessageFields ELSE CreatePageFields
Lacking(a) == {f \in RequiredFields(a) : body.pk = "absent" \/ body.fields[f].t = "undefined"}
Names(f) == \E i \in resp.err.issues : i.path = <<f>>

\* C6 as stated: a payload lacking a required field of gmail.sendMessage or
\* notion.createPage, the request without any payload included, is a 400 whose
\* error names each missing field, and no SDK call is made.
C6_MissingFieldNamed ==
    \A a \in {"gmail.sendMessage", "notion.createPage"} :
        (ActionIs(a) /\ body.pk \in {"absent", "object"} /\ Lacking(a) # {}) =>
            /\ calls = <<>>
            /\ Done => /\ resp.status = 400
                       /\ \A f \in Lacking(a) : Names(f)

\* C6 amended: a payload object lacking a required field is a 400 whose error
\* names each missing field; a request without any payload is a 400 whose error
\* points at the payload as a whole and names no field; no SDK call is made.
C6_MissingFieldOfObjectNamed ==
    \A a \in {"gmail.sendMessage", "notion.createPage"} :
        (ActionIs(a) /\ body.pk \in {"absent", "object"} /\ Lacking(a) # {}) =>
            /\ calls = <<>>
            /\ Done => /\ resp.status = 400
                       /\ body.pk = "object" => \A f \in Lacking(a) : Names(f)
                       /\ body.pk = "absent" => \A i \in resp.err.issues : i.path = <<>>

C6_Witness ==
    /\ Done
    /\ ActionIs("gmail.sendMessage")
    /\ body.pk = "object"
    /\ Lacking("gmail.sendMessage") = {"subject"}
    /\ resp.status = 400
    /\ Names("subject")

\* C7: a recognized action calls its own handler and no other; any other action,
\* or none, is a 400 with no handler called and no SDK call made, whatever the
\* payload is.
C7_Dispatch ==
    /\ Cardinality(handlers) <= 1
    /\ ActionIs("gmail.listMessages") => handlers \subseteq {"handleListMessages"}
    /\ ActionIs("gmail.sendMessage") => handlers \subseteq {"handleSendMessage"}
    /\ ActionIs("notion.listPages") => handlers \subseteq {"handleListPages"}
    /\ ActionIs("notion.createPage") => handlers \subseteq {"handleCreatePage"}
    /\ (RequestWellFormed /\ (Done \/ pc.h # "POST")) => handlers # {}
    /\ (body.json /\ (~body.obj \/ ~Recognized)) =>
          /\ handlers = {}
          /\ calls = <<>>
          /\ Done => resp.status = 400

C7_Witness ==
    /\ Done
    /\ body.action = AStr("gmail.deleteMessage")
    /\ body.pk = "object"
    /\ body.fields = SendMessageBase
    /\ resp.status = 400
    /\ handlers = {}

SizeField == IF ActionIs("gmail.listMessages") THEN "maxResults" ELSE "pageSize"
SizeGiven == IF body.pk = "object" THEN body.fields[SizeField] ELSE Undef
SizeInRange == SizeGiven.t = "number" /\ ~SizeGiven.frac /\ SizeGiven.n >= 1 /\ SizeGiven.n <= 20
OnlySizeGiven == body.pk = "object" /\ body.fields = With(NoFields, SizeField, SizeGiven)
SizedCalls == SelectSeq(calls, LAMBDA c : c.api \in {"gmail.users.messages.list", "notion.dataSources.query"})

\* C8: maxResults / pageSize is accepted exactly when absent or an integer in
\* 1..20; anything else is a 400 with no SDK call; the size forwarded is the one
\* given, or 10, and so lies in 1..20.
C8_SizeBounds ==
    (ActionIs("gmail.listMessages") \/ ActionIs("notion.listPages")) =>
        /\ (SizeGiven.t # "undefined" /\ ~SizeInRange) =>
              /\ calls = <<>>
              /\ "payload" \notin validated
              /\ Done => resp.status = 400
        /\ (OnlySizeGiven /\ (SizeGiven.t = "undefined" \/ SizeInRange) /\ PastParse) =>
              "payload" \in validated
        /\ \A k \in 1..Len(SizedCalls) :
              /\ SizedCalls[k].size \in 1..20
              /\ SizedCalls[k].size = IF SizeGiven.t = "undefined" THEN 10 ELSE SizeGiven.n

C8_Witness ==
    /\ ActionIs("gmail.listMessages")
    /\ SizeGiven = Num(20)
    /\ Len(SizedCalls) = 1
    /\ SizedCalls[1].size = 20

Rejected == {i \in 1..Len(tasks) : tasks[i].st = "rejected"}
FirstRejected == order[CHOOSE k \in 1..Len(order) : order[k] \in Rejected /\ \A j \in 1..(k - 1) : order[j] \notin Rejected]

\* C9: gmail.listMessages returns 200 only when every detail fetch succeeded; once
\* one fails the request is a 500 carrying that failure's message and no message
\* list; no fetch is made twice.
C9_NoPartialSuccess ==
    /\ (ActionIs("gmail.listMessages") /\ resp.status = 200) =>
          \A i \in 1..Len(tasks) : tasks[i].st = "fulfilled"
    /\ Rejected # {} =>
          /\ Done
          /\ resp.status = 500
          /\ resp.err = ErrorOf(GetFailed, FirstRejected)
          /\ resp.data = NoData
    /\ LET gets == CallsOf("gmail.users.messages.get") IN
       \A j, k \in 1..Len(gets) : gets[j].id = gets[k].id => j = k

C9_Witness ==
    /\ Done
    /\ resp.status = 500
    /\ \E i \in 1..Len(tasks) : tasks[i].st = "fulfilled" /\ tasks[i].val.has
    /\ Cardinality(Rejected) >= 2

\* C10: on the page at most one request is in flight, isLoading is true exactly
\* while a request is unresolved, and a displayed result answers a request made
\* for the action now selected.
C10_PageResult ==
    /\ Len(inflight) <= 1
    /\ isLoading <=> inflight # <<>>
    /\ result.shown => result.of = activeAction
====
